---- MODULE Spec2Model ----
(***************************************************************************)
(* Meeting audio pipeline of meeting-assistant:                            *)
(*   AudioCaptureService  -> TranscriptionService (Dispatch)               *)
(*   -> useTranscription.handleTranscriptionResult (transcript store)      *)
(*   -> NoteGenerationService (periodic note cycles).                      *)
(*                                                                         *)
(* One JavaScript event loop: every action below is one macrotask (a timer *)
(* callback, a UI handler, a network response) run to its next await.      *)
(* Continuations of "await" on already-settled promises are microtasks:    *)
(* they are queued in pendingAttr and run before any other macrotask.      *)
(*                                                                         *)
(* Audio is kept as runs: a chunk is one ScriptProcessor frame of          *)
(* FrameSize samples, all of value val, in hundredths of full scale.       *)
(***************************************************************************)
EXTENDS Integers, Sequences, FiniteSets, TLC

----------------------------------------------------------------------------
(* Program constants *)

SAMPLE_RATE == 16000

FrameSize == 4096

\* threshold = 0.01, in hundredths
ThresholdHundredths == 1

\* pollForTranscript(jobId, maxAttempts = 30)
MaxAttempts == 30

\* NoteGenerationConfig.minTranscriptLength
MinTranscriptLength == 50

\* noteTypes: key-point, action-item, decision, question
NumNoteTypes == 4

(* Bounds of the model *)

\* chunks emitted by capture over a run
MaxChunks == 4

\* recording sessions started over a run
MaxSessions == 2

\* largest value the wall clock reaches
MaxTime == 1

\* numbers of monologues in one provider transcript
MonologueCounts == {0, 1}

\* results handed to the note service by its environment
MaxEntries == 2

\* calls of identifySpeaker over a run
MaxCalls == 3

\* calls of startRecording over a run
MaxStarts == 2

\* largest value the wall clock reaches while the capture service is watched
MaxClock == 2

\* samples of an audio given to audioToWav
MaxSamples == 2

\* monologues of one Rev.ai transcript, and subscribers of the service
MaxMonologues == 2

MaxSubscribers == 2

\* sample values of a frame, hundredths of full scale
SampleVals == {-2, 0}

\* word counts of a non-empty utterance text
WordChoices == {10, 50}

\* provider speaker numbers
Speakers == {1, 2}

\* config.provider after configure()
Providers == {"revai", "openai"}

VARIABLES
    \* AudioCaptureService
    isRecording,        \* state.isRecording
    stopPending,        \* stopRecording() called, mediaRecorder.onstop not yet fired
    nextChunk,          \* number of frames emitted so far
    sessionNo,          \* sessions started so far
    \* clock
    now,                \* last value Date.now() returned
    \* TranscriptionService
    provider,           \* config.provider
    audioBuffer,        \* Float32Array[] as a sequence of chunks
    isProcessing,
    processInterval,    \* TRUE iff the flush timer is armed
    callbacks,          \* number of subscribed result callbacks
    jobs,               \* the processBuffer activations suspended at an await
    nextJob,            \* processBuffer activations that reached a provider so far
    \* useTranscription
    unsubscribeRef,     \* TRUE iff unsubscribeRef.current is set
    entries,            \* useTranscriptStore.entries
    pendingAttr,        \* handleTranscriptionResult continuations awaiting identifySpeaker
    nextEntry,          \* entries created so far (stands for crypto.randomUUID())
    \* NoteGenerationService
    aiConfigured,       \* aiChatService.isConfigured()
    intervalId,         \* TRUE iff the note timer is armed
    transcriptBuffer,
    lastProcessedIndex,
    noteIsProcessing,
    noteCycle,          \* the awaiting processTranscript cycle
    notesEmitted,       \* notes handed to onNoteGenerated subscribers
    \* history (observation only, never read by the program)
    flushParity,        \* flips at every processBuffer call
    lastOutcome,        \* how the last flush cycle ended ("pending" while it runs)
    failedJobs,         \* ids of the jobs whose cycle ended in the catch block
    published,          \* results built by Dispatch so far
    noteTickParity,     \* flips at every periodic processTranscript call
    lastNoteTick,       \* what the last periodic processTranscript call did
    \* NoteGenerationService, per note type (see SpecGenerate, SpecParse)
    manualCycle,        \* the awaiting generateNotesNow activation
    cycleErrors,        \* note types of the current periodic cycle that failed
    lastParse,          \* the last response handled by generateNoteType
    \* SpeakerDiarizationService (see SpecRoster)
    diarConfig,         \* config, or NoConfig
    speakers,           \* the Map's values in insertion order
    nextSpeakerIndex,
    identCalls,         \* identifySpeaker calls made so far
    lastIdent,          \* what the last identifySpeaker call got and returned
    \* AudioCaptureService, start / pause / resume (see SpecCapture)
    isPaused,           \* state.isPaused
    mediaStream,        \* TRUE iff this.mediaStream (with its nodes and recorder) is set
    openStreams,        \* device streams opened and not yet stopped
    startsPending,      \* startRecording() activations awaiting getUserMedia
    startCalls,         \* startRecording() calls made so far
    lastStart,          \* what the last startRecording() to finish returned
    startTime,
    pausedDuration,
    pauseStartTime,
    duration,           \* state.duration
    \* history of the capture service (observation only)
    pauseRequested,     \* pauseRecording() took effect; no resumeRecording() call or stop since
    activeTime,         \* clock ticks of this recording outside its pauses
    chunkParity,        \* flips at every AudioChunk handed to the listeners
    volumeParity,       \* flips at every volume handed to the listeners
    \* history of the sessions (see SpecSessions)
    carriedJobs,        \* ids of the jobs that were in flight when the session was started
    \* TranscriptionService, one call at a time (see SpecWav, SpecPoll, SpecPublish)
    lastWav,            \* the last audio given to audioToWav and the bytes it built
    poll,               \* one pollForTranscript activation
    lastDelivery        \* the last transcript processWithRevAi published, and the calls made

dispatchVars == <<provider, audioBuffer, isProcessing, processInterval, callbacks, jobs, nextJob>>
captureVars == <<isRecording, stopPending, nextChunk, sessionNo>>
hookVars == <<unsubscribeRef, entries, pendingAttr, nextEntry>>
noteVars == <<aiConfigured, intervalId, transcriptBuffer, lastProcessedIndex,
              noteIsProcessing, noteCycle, notesEmitted>>
histVars == <<flushParity, lastOutcome, failedJobs, published, noteTickParity, lastNoteTick>>
noteExtVars == <<manualCycle, cycleErrors, lastParse>>
rosterVars == <<diarConfig, speakers, nextSpeakerIndex, identCalls, lastIdent>>
captureExtVars == <<isPaused, mediaStream, openStreams, startsPending, startCalls, lastStart,
                    startTime, pausedDuration, pauseStartTime, duration, pauseRequested,
                    activeTime, chunkParity, volumeParity>>
pureVars == <<lastWav, poll, lastDelivery>>
extVars == <<noteExtVars, rosterVars, captureExtVars, carriedJobs, pureVars>>
vars == <<captureVars, now, dispatchVars, hookVars, noteVars, histVars, extVars>>

----------------------------------------------------------------------------
(* Helpers *)

Abs(x) == IF x < 0 THEN -x ELSE x

ChunkIds(chunks) == {chunks[i].id : i \in 1..Len(chunks)}

IdleCycle == [active |-> FALSE, batch |-> {}, timestamp |-> 0, typeIdx |-> 0, notes |-> 0]

\* private config: DiarizationConfig | null = null
NoConfig == [method |-> "none", maxSpeakers |-> 0]

\* no identifySpeaker call made yet
NoIdent == [features |-> [given |-> FALSE, pitch |-> 0, energy |-> 0], threw |-> FALSE,
            speakerId |-> 0, confidence |-> <<0, 1>>]

\* No continuation is waiting in the microtask queue: a macrotask may run.
MacrotaskReady == pendingAttr = <<>>

----------------------------------------------------------------------------
(* TranscriptionService: pure helpers *)

\* combineAudioChunks: the frames in buffer order, as one audio
combineAudioChunks(chunks) == chunks

\* audio.length
RECURSIVE AudioLength(_)
AudioLength(audio) ==
    IF audio = <<>> THEN 0 ELSE Head(audio).len + AudioLength(Tail(audio))

\* sum += Math.abs(audio[i]), in hundredths
RECURSIVE SumAbs(_)
SumAbs(audio) ==
    IF audio = <<>> THEN 0
    ELSE Head(audio).len * Abs(Head(audio).val) + SumAbs(Tail(audio))

hasAudioContentNoGate(audio) == TRUE

\* average = sum / audio.length; return average > threshold
\* (0 / 0 is NaN, and NaN > threshold is false)
hasAudioContent(audio) ==
    /\ AudioLength(audio) > 0
    /\ SumAbs(audio) > ThresholdHundredths * AudioLength(audio)

\* durationSeconds = combinedAudio.length / SAMPLE_RATE; durationSeconds < 0.5
TooShort(audio) == 2 * AudioLength(audio) < SAMPLE_RATE

CanProcessNoGuard(processing, buffer) == buffer # <<>>

\* the negation of processBuffer's early return (config is set: see Init)
CanProcess(processing, buffer) == ~processing /\ buffer # <<>>

\* Date.now(): some value not before the last one read
ClockReads == {t \in {now, now + 1} : t <= MaxTime}

----------------------------------------------------------------------------
(* TranscriptionService.processBuffer, up to its first await *)

ProcessBuffer ==
    LET combinedAudio == combineAudioChunks(audioBuffer) IN
    /\ flushParity' = 1 - flushParity
    /\ IF ~CanProcess(isProcessing, audioBuffer)
       THEN UNCHANGED <<audioBuffer, isProcessing, jobs, nextJob, now, lastOutcome>>
       ELSE \E timestamp \in ClockReads :
            /\ now' = timestamp
            /\ audioBuffer' = <<>>
            /\ IF ~hasAudioContent(combinedAudio)
               THEN /\ isProcessing' = FALSE
                    /\ lastOutcome' = "silence"
                    /\ UNCHANGED <<jobs, nextJob>>
               ELSE IF TooShort(combinedAudio)
               THEN /\ isProcessing' = FALSE
                    /\ lastOutcome' = "short"
                    /\ UNCHANGED <<jobs, nextJob>>
               ELSE /\ isProcessing' = TRUE
                    /\ lastOutcome' = "pending"
                    /\ nextJob' = nextJob + 1
                    /\ jobs' = jobs \cup
                           {[id |-> nextJob + 1,
                             stage |-> IF provider = "openai" THEN "whisper" ELSE "submit",
                             timestamp |-> timestamp,
                             ids |-> ChunkIds(audioBuffer),
                             attempt |-> 0]}

----------------------------------------------------------------------------
(* useTranscription.handleTranscriptionResult and the stores *)

AddEntryAtFront(list, entry) == <<entry>> \o list

\* useTranscriptStore.addEntry: entries: [...state.entries, entry]
AddEntry(list, entry) == Append(list, entry)

\* NoteGenerationService.addTranscriptEntry: transcriptBuffer.push(entry)
addTranscriptEntry(buffer, entry) == Append(buffer, entry)

RECURSIVE AddAll(_, _)
AddAll(list, new) ==
    IF new = <<>> THEN list ELSE AddAll(AddEntry(list, Head(new)), Tail(new))

RECURSIVE PushAll(_, _)
PushAll(buffer, new) ==
    IF new = <<>> THEN buffer ELSE PushAll(addTranscriptEntry(buffer, Head(new)), Tail(new))

\* callbacks.forEach(cb => cb(result)) for each result in turn
RECURSIVE Fanout(_, _)
Fanout(results, k) ==
    IF results = <<>> THEN <<>>
    ELSE [i \in 1..k |-> Head(results)] \o Fanout(Tail(results), k)

\* the TranscriptEntry handleTranscriptionResult builds for the i-th delivery
EntryOf(result, i) ==
    [id |-> nextEntry + i, timestamp |-> result.timestamp, words |-> result.words,
     speakerId |-> result.speakerId]

\* The results of one job reach the subscribers, in order. A result with a
\* speakerId is appended at once; one without waits for identifySpeaker.
Publish(results) ==
    LET calls == Fanout(results, callbacks)
        made == [i \in 1..Len(calls) |-> EntryOf(calls[i], i)]
        direct == SelectSeq(made, LAMBDA e : e.speakerId # 0)
        waiting == SelectSeq(made, LAMBDA e : e.speakerId = 0)
    IN
    /\ nextEntry' = nextEntry + Len(calls)
    /\ entries' = AddAll(entries, direct)
    /\ transcriptBuffer' = PushAll(transcriptBuffer, direct)
    /\ pendingAttr' = pendingAttr \o waiting
    /\ published' = published + Len(results)
    /\ UNCHANGED unsubscribeRef

NoPublish ==
    UNCHANGED <<hookVars, transcriptBuffer, published>>

\* The continuation after "await identifySpeaker(tempEntry, audioFeatures)":
\* a microtask. identifySpeaker resolves to some speaker of the roster.
AttributionResume ==
    /\ pendingAttr # <<>>
    /\ \E speaker \in Speakers :
        LET entry == [Head(pendingAttr) EXCEPT !.speakerId = speaker] IN
        /\ entries' = AddEntry(entries, entry)
        /\ transcriptBuffer' = addTranscriptEntry(transcriptBuffer, entry)
    /\ pendingAttr' = Tail(pendingAttr)
    /\ UNCHANGED <<captureVars, now, dispatchVars, unsubscribeRef, nextEntry,
                   aiConfigured, intervalId, lastProcessedIndex, noteIsProcessing,
                   noteCycle, notesEmitted, histVars, extVars>>

----------------------------------------------------------------------------
(* Provider responses: the continuations of processBuffer *)

\* monologues of a Rev.ai transcript: a speaker and the word count of the
\* text its elements join to (0: no text)
Monologues == [speaker : Speakers, words : WordChoices \cup {0}]

Transcripts ==
    UNION {[1..n -> Monologues] : n \in MonologueCounts}

\* processWithRevAi without its "if (text)" test
RevAiResultsKeepEmpty(transcript, timestamp) ==
    [i \in 1..Len(transcript) |->
        [timestamp |-> timestamp, words |-> transcript[i].words,
         speakerId |-> transcript[i].speaker]]

\* processWithRevAi: one result per monologue whose text is not empty
RevAiResults(transcript, timestamp) ==
    LET withText == SelectSeq(transcript, LAMBDA m : m.words > 0) IN
    [i \in 1..Len(withText) |->
        [timestamp |-> timestamp, words |-> withText[i].words,
         speakerId |-> withText[i].speaker]]

\* processWithOpenAI: one result without speaker if the text is not empty
OpenAIResults(words, timestamp) ==
    IF words > 0
    THEN <<[timestamp |-> timestamp, words |-> words, speakerId |-> 0]>>
    ELSE <<>>

CycleFailKeepsGuard(j) ==
    /\ jobs' = jobs \ {j}
    /\ lastOutcome' = "failed"
    /\ failedJobs' = failedJobs \cup {j.id}
    /\ UNCHANGED isProcessing

\* catch (error) { console.error } finally { this.isProcessing = false }
CycleFail(j) ==
    /\ jobs' = jobs \ {j}
    /\ isProcessing' = FALSE
    /\ lastOutcome' = "failed"
    /\ failedJobs' = failedJobs \cup {j.id}

\* the try block ran to its end; finally { this.isProcessing = false }
CycleDone(j) ==
    /\ jobs' = jobs \ {j}
    /\ isProcessing' = FALSE
    /\ lastOutcome' = "ok"
    /\ UNCHANGED failedJobs

\* pollForTranscript's catch: rethrow on the last attempt, else next attempt
PollCatch(j) ==
    IF j.attempt = MaxAttempts - 1
    THEN CycleFail(j)
    ELSE /\ jobs' = (jobs \ {j}) \cup {[j EXCEPT !.stage = "status", !.attempt = j.attempt + 1]}
         /\ UNCHANGED <<isProcessing, lastOutcome, failedJobs>>

respFrame ==
    UNCHANGED <<captureVars, now, provider, audioBuffer, processInterval, callbacks, nextJob,
                aiConfigured, intervalId, lastProcessedIndex, noteIsProcessing,
                noteCycle, notesEmitted, flushParity, noteTickParity, lastNoteTick,
                extVars>>

\* POST /jobs answered with a job id: pollForTranscript starts
SubmitOk ==
    /\ MacrotaskReady
    /\ \E j \in jobs :
        /\ j.stage = "submit"
        /\ jobs' = (jobs \ {j}) \cup {[j EXCEPT !.stage = "status"]}
    /\ UNCHANGED <<isProcessing, lastOutcome, failedJobs>>
    /\ NoPublish /\ respFrame

\* POST /jobs rejected, or the request failed
SubmitFail ==
    /\ MacrotaskReady
    /\ \E j \in jobs : j.stage = "submit" /\ CycleFail(j)
    /\ NoPublish /\ respFrame

\* GET /jobs/{id}: in_progress; wait 2 s, then the next attempt, or the
\* loop ends and "Rev.ai job timeout" is thrown
StatusInProgress ==
    /\ MacrotaskReady
    /\ \E j \in jobs :
        /\ j.stage = "status"
        /\ IF j.attempt + 1 < MaxAttempts
           THEN /\ jobs' = (jobs \ {j}) \cup {[j EXCEPT !.attempt = j.attempt + 1]}
                /\ UNCHANGED <<isProcessing, lastOutcome, failedJobs>>
           ELSE CycleFail(j)
    /\ NoPublish /\ respFrame

\* GET /jobs/{id}: transcribed; the transcript is requested
StatusTranscribed ==
    /\ MacrotaskReady
    /\ \E j \in jobs :
        /\ j.stage = "status"
        /\ jobs' = (jobs \ {j}) \cup {[j EXCEPT !.stage = "transcript"]}
    /\ UNCHANGED <<isProcessing, lastOutcome, failedJobs>>
    /\ NoPublish /\ respFrame

\* GET /jobs/{id}: failed, or the request itself failed: thrown inside the
\* loop's try and caught by the loop's catch
StatusFailed ==
    /\ MacrotaskReady
    /\ \E j \in jobs : j.stage = "status" /\ PollCatch(j)
    /\ NoPublish /\ respFrame

\* GET /jobs/{id}/transcript answered: the results are published
TranscriptOk ==
    /\ MacrotaskReady
    /\ \E j \in jobs :
        /\ j.stage = "transcript"
        /\ \E transcript \in Transcripts : Publish(RevAiResults(transcript, j.timestamp))
        /\ CycleDone(j)
    /\ respFrame

\* GET /jobs/{id}/transcript failed: caught by the loop's catch
TranscriptError ==
    /\ MacrotaskReady
    /\ \E j \in jobs : j.stage = "transcript" /\ PollCatch(j)
    /\ NoPublish /\ respFrame

\* POST /v1/audio/transcriptions answered with text
WhisperOk ==
    /\ MacrotaskReady
    /\ \E j \in jobs :
        /\ j.stage = "whisper"
        /\ \E words \in WordChoices \cup {0} : Publish(OpenAIResults(words, j.timestamp))
        /\ CycleDone(j)
    /\ respFrame

\* POST /v1/audio/transcriptions not ok
WhisperFail ==
    /\ MacrotaskReady
    /\ \E j \in jobs : j.stage = "whisper" /\ CycleFail(j)
    /\ NoPublish /\ respFrame

----------------------------------------------------------------------------
(* NoteGenerationService *)

\* NoteGenerationConfig.enabled (settings.autoGenerateNotes !== false)
NotesEnabled == TRUE

\* what one aiChatService.sendMessage + parseNoteResponse can come to:
\* pending notes, an empty array, or an error / a malformed response ([])
AiOutcomes == {"notes", "empty", "error"}

\* newEntries.reduce((count, entry) => count + entry.text.split(/\s+/).length, 0)
RECURSIVE WordCount(_)
WordCount(list) ==
    IF list = <<>> THEN 0 ELSE Head(list).words + WordCount(Tail(list))

\* transcriptBuffer.slice(lastProcessedIndex)
NewEntries == SubSeq(transcriptBuffer, lastProcessedIndex + 1, Len(transcriptBuffer))

EntryIds(list) == {list[i].id : i \in 1..Len(list)}

EnoughContentAlways(wordCount) == TRUE

\* the negation of: if (wordCount < this.config.minTranscriptLength) return
EnoughContent(wordCount) == ~(wordCount < MinTranscriptLength)

\* this.lastProcessedIndex = this.transcriptBuffer.length
CursorAfterCycle(buffer, batchEnd) == Len(buffer)

\* processTranscript up to its first await (the first sendMessage)
ProcessTranscript ==
    IF noteIsProcessing \/ ~aiConfigured
    THEN /\ lastNoteTick' = "guard"
         /\ UNCHANGED <<noteIsProcessing, noteCycle>>
    ELSE IF NewEntries = <<>>
    THEN /\ lastNoteTick' = "empty"
         /\ UNCHANGED <<noteIsProcessing, noteCycle>>
    ELSE IF ~EnoughContent(WordCount(NewEntries))
    THEN /\ lastNoteTick' = "sparse"
         /\ UNCHANGED <<noteIsProcessing, noteCycle>>
    ELSE /\ lastNoteTick' = "started"
         /\ noteIsProcessing' = TRUE
         /\ noteCycle' = [active |-> TRUE, batch |-> EntryIds(NewEntries),
                          timestamp |-> NewEntries[Len(NewEntries)].timestamp,
                          typeIdx |-> 1, notes |-> 0]

\* the note timer fires: setInterval(() => this.processTranscript(), interval)
NoteTick ==
    /\ MacrotaskReady
    /\ intervalId
    /\ ProcessTranscript
    /\ noteTickParity' = 1 - noteTickParity
    /\ UNCHANGED <<captureVars, now, dispatchVars, hookVars, aiConfigured, intervalId,
                   transcriptBuffer, lastProcessedIndex, notesEmitted,
                   flushParity, lastOutcome, failedJobs, published, extVars>>

\* the AI provider answers the request of the current note type: the loop of
\* generateNotesFromContext goes to the next type, or the cycle ends
AiResponse ==
    /\ MacrotaskReady
    /\ noteCycle.active
    /\ \E outcome \in AiOutcomes :
        LET got == noteCycle.notes + (IF outcome = "notes" THEN 1 ELSE 0) IN
        IF noteCycle.typeIdx < NumNoteTypes
        THEN /\ noteCycle' = [noteCycle EXCEPT !.typeIdx = noteCycle.typeIdx + 1, !.notes = got]
             /\ UNCHANGED <<notesEmitted, lastProcessedIndex, noteIsProcessing>>
        ELSE /\ notesEmitted' = notesEmitted + got
             /\ lastProcessedIndex' = CursorAfterCycle(transcriptBuffer, 0)
             /\ noteIsProcessing' = FALSE
             /\ noteCycle' = IdleCycle
    /\ UNCHANGED <<captureVars, now, dispatchVars, hookVars, aiConfigured, intervalId,
                   transcriptBuffer, histVars, extVars>>

----------------------------------------------------------------------------
(* NoteGenerationService: one note type of a cycle                         *)
(*                                                                         *)
(* A provider response is its text in three parts: what precedes a code    *)
(* fence, the fence, and the body the fence wraps. The body is the JSON    *)
(* value it denotes, or no JSON at all. A JSON array is its items; an item *)
(* is a string, a blank string, a number, null or an object with the       *)
(* fields content and assignee ("" stands for a missing or null field).    *)

\* config.noteTypes, in the order of the loop
NoteTypeNames == <<"key-point", "action-item", "decision", "question">>

StrItem == [kind |-> "string", content |-> "text", assignee |-> ""]

BlankItem == [kind |-> "string", content |-> " ", assignee |-> ""]

NumItem == [kind |-> "number", content |-> "", assignee |-> ""]

NullItem == [kind |-> "null", content |-> "", assignee |-> ""]

ObjAssigned == [kind |-> "object", content |-> "text", assignee |-> "Bob"]

ObjUnassigned == [kind |-> "object", content |-> "text", assignee |-> ""]

NotJson == [json |-> FALSE, array |-> FALSE, items |-> <<>>]

JsonObject == [json |-> TRUE, array |-> FALSE, items |-> <<>>]

JsonArray(items) == [json |-> TRUE, array |-> TRUE, items |-> items]

Response(prefix, fence, body) == [prefix |-> prefix, fence |-> fence, body |-> body]

\* "[]"
EmptyArrayResponse == Response("", "", JsonArray(<<>>))

\* "[]" wrapped in a json code fence
FencedEmptyResponse == Response("", "fence json", JsonArray(<<>>))

\* text that is not JSON
NotJsonResponse == Response("", "", NotJson)

\* JSON that is not an array
NonArrayResponse == Response("", "", JsonObject)

\* response.content values of aiChatService.sendMessage
Responses ==
    {EmptyArrayResponse, FencedEmptyResponse, NotJsonResponse, NonArrayResponse,
     Response("", "fence", JsonArray(<<StrItem>>)),
     Response("prose", "fence json", JsonArray(<<StrItem>>)),
     Response("", "fence js", JsonArray(<<StrItem>>)),
     Response("", "", JsonArray(<<StrItem, BlankItem, NumItem>>)),
     Response("", "", JsonArray(<<ObjAssigned>>)),
     Response("", "fence json", JsonArray(<<ObjUnassigned, StrItem>>)),
     Response("", "", JsonArray(<<ObjAssigned, NullItem>>)),
     Response("", "", JsonArray(<<NullItem>>))}

\* sendMessage rejected: not configured, or a provider API error
ProviderError == Response("rejected", "", NotJson)

\* jsonStr after trim() and the two replace() calls: a response that starts
\* with a fence loses every fence and a "json" tag; any other tag stays
StripFence(response) ==
    IF response.prefix = "" /\ response.fence # ""
    THEN Response(IF response.fence \in {"fence", "fence json"} THEN "" ELSE "tag",
                  "", response.body)
    ELSE response

\* JSON.parse(jsonStr): the value, or NotJson where it throws (other text
\* or a fence around the body)
JsonParse(text) ==
    IF text.prefix = "" /\ text.fence = "" THEN text.body ELSE NotJson

\* filter: typeof item is string and item.trim().length > 0
KeepString(item) == item.kind = "string" /\ item.content # " "

\* the pending note of one array item
PendingOf(noteType, content, assignee, timestamp) ==
    [type |-> noteType, content |-> content, timestamp |-> timestamp, assignee |-> assignee]

\* the body of parseNoteResponse's try block: what it returns, or that it threw
ParseBody(response, noteType, timestamp) ==
    LET parsed == JsonParse(StripFence(response)) IN
    IF ~parsed.json THEN [threw |-> TRUE, pending |-> <<>>]
    ELSE IF ~parsed.array THEN [threw |-> FALSE, pending |-> <<>>]
    ELSE IF /\ noteType = "action-item"
            /\ Len(parsed.items) > 0
            /\ parsed.items[1].kind \in {"object", "null"}
    THEN IF \E i \in 1..Len(parsed.items) : parsed.items[i].kind = "null"
         THEN [threw |-> TRUE, pending |-> <<>>]
         ELSE [threw |-> FALSE,
               pending |-> [i \in 1..Len(parsed.items) |->
                   PendingOf(noteType,
                             IF parsed.items[i].kind = "object"
                             THEN parsed.items[i].content ELSE "",
                             IF parsed.items[i].kind = "object"
                             THEN parsed.items[i].assignee ELSE "",
                             timestamp)]]
    ELSE LET strings == SelectSeq(parsed.items, KeepString) IN
         [threw |-> FALSE,
          pending |-> [i \in 1..Len(strings) |->
              PendingOf(noteType, strings[i].content, "", timestamp)]]

parseNoteResponseNoCatch(response, noteType, timestamp) ==
    ParseBody(response, noteType, timestamp)

\* parseNoteResponse: try { ... } catch (error) { return [] }
parseNoteResponse(response, noteType, timestamp) ==
    LET tried == ParseBody(response, noteType, timestamp) IN
    IF tried.threw THEN [threw |-> FALSE, pending |-> <<>>] ELSE tried

\* a PendingNote field that is undefined
NoTime == 0 - 1

\* a || b on timestamps. A clock value t stands for the Date.now() value
\* T0 + t of some T0 > 0: only a missing timestamp is falsy.
OrElse(a, b) == IF a = NoTime THEN b ELSE a

\* the Note literal of generateNotesFromContext: it has no assignee field
NoteOf(pending, timestamp) ==
    [type |-> pending.type, content |-> pending.content,
     timestamp |-> OrElse(pending.timestamp, timestamp), assignee |-> ""]

Materialize(pendingNotes, timestamp) ==
    [i \in 1..Len(pendingNotes) |-> NoteOf(pendingNotes[i], timestamp)]

\* generateNoteType once sendMessage has settled: the pending notes of the
\* response, or [] from its catch block
generateNoteType(reply, noteType, timestamp) ==
    IF reply = ProviderError THEN <<>>
    ELSE LET parsed == parseNoteResponse(reply, noteType, timestamp) IN
         IF parsed.threw THEN <<>> ELSE parsed.pending

\* whether parseNoteResponse itself raised on this reply
Raised(reply, noteType, timestamp) ==
    reply # ProviderError /\ parseNoteResponse(reply, noteType, timestamp).threw

\* this note type ended in an error: the provider call was rejected, or the
\* response was malformed (not JSON, not an array, or not parseable items)
TypeFailed(reply, noteType, timestamp) ==
    \/ reply = ProviderError
    \/ ParseBody(reply, noteType, timestamp).threw
    \/ ~JsonParse(StripFence(reply)).array

NextTypeBreak(typeIdx, failed) == IF failed THEN NumNoteTypes + 1 ELSE typeIdx + 1

\* for (const noteType of this.config.noteTypes) { try { ... } catch { ... } }:
\* the loop goes on to the next type whether or not this one failed
NextType(typeIdx, failed) == typeIdx + 1

\* no generateNoteType response handled yet
NoParse ==
    [noteType |-> "none", response |-> ProviderError, raised |-> FALSE, failed |-> FALSE,
     pending |-> <<>>, notes |-> <<>>, fallback |-> 0]

Replies == Responses \cup {ProviderError}

\* the activation of generateNotesFromContext for the given entries
\* (timestamp = entries[entries.length - 1]?.timestamp || Date.now())
CycleFor(list) ==
    [active |-> TRUE, batch |-> EntryIds(list),
     timestamp |-> OrElse(IF list = <<>> THEN NoTime ELSE list[Len(list)].timestamp, now),
     typeIdx |-> 1, notes |-> 0]

ManualEntriesFromCursor(buffer, cursor) == SubSeq(buffer, cursor + 1, Len(buffer))

\* the entries generateNotesNow maps into its context and hands to
\* generateNotesFromContext: this.transcriptBuffer
ManualEntries(buffer, cursor) == buffer

\* One iteration of the loop of generateNotesFromContext, from the settled
\* sendMessage to the next request or to the return.
TypeResponse(cycle, reply, at) ==
    LET noteType == NoteTypeNames[cycle.typeIdx]
        pending == generateNoteType(reply, noteType, at)
        notes == Materialize(pending, cycle.timestamp)
        failed == TypeFailed(reply, noteType, at)
        next == NextType(cycle.typeIdx, failed)
    IN [parse |-> [noteType |-> noteType, response |-> reply,
                   raised |-> Raised(reply, noteType, at), failed |-> failed,
                   pending |-> pending, notes |-> notes, fallback |-> cycle.timestamp],
        got |-> cycle.notes + Len(notes),
        done |-> next > NumNoteTypes,
        cycle |-> [cycle EXCEPT !.typeIdx = next, !.notes = cycle.notes + Len(notes)]]

\* An abstract outcome of one note type as one iteration of the loop of
\* generateNotesFromContext: a response with notes adds one note.
TypeOutcome(cycle, outcome) ==
    LET got == cycle.notes + (IF outcome = "notes" THEN 1 ELSE 0)
        next == NextType(cycle.typeIdx, outcome = "error")
    IN [got |-> got, done |-> next > NumNoteTypes,
        cycle |-> [cycle EXCEPT !.typeIdx = next, !.notes = got]]

\* As AiResponse, and counts the note types of the cycle that failed: the
\* AI provider settles the request of the current note type of the periodic
\* cycle; after the last type processTranscript emits the notes, moves the
\* cursor and releases its guard.
NoteTypeResponse ==
    /\ MacrotaskReady
    /\ noteCycle.active
    /\ \E outcome \in AiOutcomes :
        LET step == TypeOutcome(noteCycle, outcome) IN
        /\ cycleErrors' = (IF noteCycle.typeIdx = 1 THEN 0 ELSE cycleErrors)
                          + (IF outcome = "error" THEN 1 ELSE 0)
        /\ IF ~step.done
           THEN /\ noteCycle' = step.cycle
                /\ UNCHANGED <<notesEmitted, lastProcessedIndex, noteIsProcessing>>
           ELSE /\ notesEmitted' = notesEmitted + step.got
                /\ lastProcessedIndex' = CursorAfterCycle(transcriptBuffer, 0)
                /\ noteIsProcessing' = FALSE
                /\ noteCycle' = IdleCycle
    /\ UNCHANGED <<captureVars, now, dispatchVars, hookVars, aiConfigured, intervalId,
                   transcriptBuffer, histVars, manualCycle, lastParse, rosterVars,
                   captureExtVars, carriedJobs, pureVars>>

\* The "Generate Notes Now" button (disabled while a manual run is going):
\* generateNotesNow up to the first sendMessage. (With an empty buffer it
\* returns [] at once and nothing changes.)
GenerateNotesNow ==
    /\ MacrotaskReady
    /\ ~manualCycle.active
    /\ transcriptBuffer # <<>>
    /\ manualCycle' = CycleFor(ManualEntries(transcriptBuffer, lastProcessedIndex))
    /\ UNCHANGED <<captureVars, now, dispatchVars, hookVars, noteVars, histVars,
                   cycleErrors, lastParse, rosterVars,
                   captureExtVars, carriedJobs, pureVars>>

\* The last request of the manual run has settled: generateNotesFromContext
\* returns and the hook puts the notes into the notes store (outside this
\* model). Between its awaits the run touches only its own locals (context,
\* timestamp, notes), so its four awaits are taken as one.
ManualRunReturns ==
    /\ MacrotaskReady
    /\ manualCycle.active
    /\ manualCycle' = IdleCycle
    /\ UNCHANGED <<captureVars, now, dispatchVars, hookVars, noteVars, histVars,
                   cycleErrors, lastParse, rosterVars,
                   captureExtVars, carriedJobs, pureVars>>

\* batches generateNotesFromContext can be given: entries of past flush
\* cycles, in timestamp order
Batches ==
    LET entry(i, t) == [id |-> i, timestamp |-> t, words |-> MinTranscriptLength,
                        speakerId |-> 1]
    IN {<<entry(1, t)>> : t \in 0..now}
       \cup UNION {{<<entry(1, t), entry(2, u)>> : u \in t..now} : t \in 0..now}

\* generateNotesFromContext for one note type of some batch, with the
\* provider's reply to that type's request: generateNoteType,
\* parseNoteResponse and the Note literal, applied to their inputs
GenerateNoteType ==
    /\ \E list \in Batches, typeIdx \in 1..NumNoteTypes, reply \in Replies, at \in ClockReads :
        LET step == TypeResponse([CycleFor(list) EXCEPT !.typeIdx = typeIdx], reply, at) IN
        /\ lastParse' = step.parse
        /\ now' = IF step.parse.pending = <<>> THEN now ELSE at
    /\ UNCHANGED <<captureVars, dispatchVars, hookVars, noteVars, histVars,
                   manualCycle, cycleErrors, rosterVars,
                   captureExtVars, carriedJobs, pureVars>>

----------------------------------------------------------------------------
(* SpeakerDiarizationService                                               *)
(*                                                                         *)
(* A profile keeps its running averages as sums over utteranceCount:       *)
(* avgPitch = pitchSum / utteranceCount, avgEnergy = energySum /           *)
(* (100 * utteranceCount). Pitch is in Hz, energy in hundredths. A speaker *)
(* id n stands for "speaker-n". A confidence is a fraction <<num, den>>.   *)

\* avgPitch: audioFeatures?.pitch || 150
DefaultPitch == 150

\* avgEnergy: audioFeatures?.energy || 0.5, in hundredths
DefaultEnergy == 50

\* this.config?.maxSpeakers || 4
DefaultMaxSpeakers == 4

\* getTimeSinceLastUtterance(): "For now, return a default value"
getTimeSinceLastUtterance == 1000

\* timeSinceLastUtterance > 2000
NewSpeakerGapMs == 2000

\* audioFeatures is undefined
NoFeatures == [given |-> FALSE, pitch |-> 0, energy |-> 0]

\* what analyzeAudioFeatures returns for the last chunk: pitch clamped to
\* 50..400 Hz, energy to 0..1 (a silent chunk has energy 0)
FeatureChoices == [given : {TRUE}, pitch : {100, 200}, energy : {0, 20, 90}]

\* the configurations configure() is given: the hook's (simple, 4
\* speakers), smaller rosters, no maxSpeakers, and the other methods
DiarConfigs ==
    [method : {"simple"}, maxSpeakers : {0, 1, 2, 4}]
        \cup [method : {"assemblyai", "pyannote"}, maxSpeakers : {4}]

\* value || default
Seed(value, default) == IF value = 0 THEN default ELSE value

\* the profile createNewSpeaker builds
NewProfile(index, features) ==
    [id |-> index + 1,
     pitchSum |-> IF features.given THEN Seed(features.pitch, DefaultPitch) ELSE DefaultPitch,
     energySum |-> IF features.given THEN Seed(features.energy, DefaultEnergy) ELSE DefaultEnergy,
     utteranceCount |-> 1]

\* this.speakers.set(speakerId, speaker): a new key goes last, an existing
\* key keeps its place
MapSet(roster, profile) ==
    IF \E i \in 1..Len(roster) : roster[i].id = profile.id
    THEN [i \in 1..Len(roster) |-> IF roster[i].id = profile.id THEN profile ELSE roster[i]]
    ELSE Append(roster, profile)

\* updateSpeakerProfile: the running averages take the new values in and
\* utteranceCount grows; without features nothing changes
updateSpeakerProfile(roster, speakerId, features) ==
    IF ~features.given THEN roster
    ELSE [i \in 1..Len(roster) |->
            IF roster[i].id = speakerId
            THEN [roster[i] EXCEPT !.pitchSum = @ + features.pitch,
                                   !.energySum = @ + features.energy,
                                   !.utteranceCount = @ + 1]
            ELSE roster[i]]

\* .sort((a, b) => b.utteranceCount - a.utteranceCount), a stable sort
RECURSIVE InsertByCount(_, _)
InsertByCount(sorted, profile) ==
    IF sorted = <<>> THEN <<profile>>
    ELSE IF Head(sorted).utteranceCount >= profile.utteranceCount
    THEN <<Head(sorted)>> \o InsertByCount(Tail(sorted), profile)
    ELSE <<profile>> \o sorted

RECURSIVE SortByCount(_, _)
SortByCount(sorted, rest) ==
    IF rest = <<>> THEN sorted
    ELSE SortByCount(InsertByCount(sorted, Head(rest)), Tail(rest))

\* Array.from(this.speakers.values()).filter(utteranceCount > 0).sort(...)
RecentSpeakers(roster) ==
    SortByCount(<<>>, SelectSeq(roster, LAMBDA sp : sp.utteranceCount > 0))

\* pitchDiff + energyDiff as the fraction <<num, den>>
Distance(profile, features) ==
    <<100 * Abs(profile.pitchSum - features.pitch * profile.utteranceCount)
        + Abs(profile.energySum - features.energy * profile.utteranceCount),
      100 * profile.utteranceCount>>

\* score = 1 / (1 + distance)
Score(distance) == <<distance[2], distance[2] + distance[1]>>

\* a > b on fractions with positive denominators
Greater(a, b) == a[1] * b[2] > b[1] * a[2]

\* score > 0.6
MatchThreshold == <<3, 5>>

\* the loop over recentSpeakers: the first profile with the highest score
\* above the threshold; id 0 stands for bestMatch = null
RECURSIVE BestMatch(_, _, _)
BestMatch(recent, features, best) ==
    IF recent = <<>> THEN best
    ELSE LET score == Score(Distance(Head(recent), features)) IN
         BestMatch(Tail(recent), features,
                   IF Greater(score, best.score) /\ Greater(score, MatchThreshold)
                   THEN [id |-> Head(recent).id, score |-> score]
                   ELSE best)

NoMatch == [id |-> 0, score |-> <<0, 1>>]

\* const isLikelyNewSpeaker = timeSinceLastUtterance > 2000
isLikelyNewSpeaker == getTimeSinceLastUtterance > NewSpeakerGapMs

\* recentSpeakers.find(s => s.id !== lastSpeaker.id); id 0: undefined
OtherSpeaker(recent) ==
    LET others == SelectSeq(recent, LAMBDA sp : sp.id # recent[1].id) IN
    IF others = <<>> THEN 0 ELSE others[1].id

\* this.config?.maxSpeakers || 4
MaxSpeakersOf(config) == Seed(config.maxSpeakers, DefaultMaxSpeakers)

ShouldCreateAlways(size, likelyNew, max) == TRUE

\* this.speakers.size === 0 || (isLikelyNewSpeaker && this.speakers.size < max)
ShouldCreate(size, likelyNew, max) == size = 0 \/ (likelyNew /\ size < max)

\* what an identification leaves behind and resolves to
Identified(roster, index, speakerId, confidence) ==
    [speakers |-> roster, nextSpeakerIndex |-> index, threw |-> FALSE,
     speakerId |-> speakerId, confidence |-> confidence]

PlaceholderThrows(roster, index, confidence) ==
    [speakers |-> roster, nextSpeakerIndex |-> index, threw |-> TRUE,
     speakerId |-> 0, confidence |-> confidence]

\* return { speakerId: 'speaker-1', speakerName: 'Speaker 1', confidence }
Placeholder(roster, index, confidence) ==
    Identified(roster, index, 1, confidence)

NeverMatches(recent, features) == NoMatch

\* if (audioFeatures && recentSpeakers.length > 0) { ... bestMatch }
MatchOf(recent, features) ==
    IF features.given /\ recent # <<>> THEN BestMatch(recent, features, NoMatch) ELSE NoMatch

simpleIdentification(roster, index, features, config) ==
    LET recent == RecentSpeakers(roster)
        match == MatchOf(recent, features)
        other == IF isLikelyNewSpeaker /\ recent # <<>> THEN OtherSpeaker(recent) ELSE 0
        created == NewProfile(index, features)
    IN
    IF match.id # 0
    THEN Identified(updateSpeakerProfile(roster, match.id, features), index,
                    match.id, match.score)
    ELSE IF other # 0
    THEN Identified(updateSpeakerProfile(roster, other, features), index, other, <<7, 10>>)
    ELSE IF ShouldCreate(Len(roster), isLikelyNewSpeaker, MaxSpeakersOf(config))
    THEN Identified(MapSet(roster, created), index + 1, created.id, <<6, 10>>)
    ELSE IF recent # <<>>
    THEN Identified(updateSpeakerProfile(roster, recent[1].id, features), index,
                    recent[1].id, <<5, 10>>)
    ELSE Identified(updateSpeakerProfile(MapSet(roster, created), created.id, features),
                    index + 1, created.id, <<5, 10>>)

\* assemblyAIIdentification: "not yet implemented", a placeholder
assemblyAIIdentification(roster, index) == Placeholder(roster, index, <<8, 10>>)

identifySpeaker(roster, index, features, config) ==
    IF config = NoConfig THEN Placeholder(roster, index, <<5, 10>>)
    ELSE IF config.method = "simple" THEN simpleIdentification(roster, index, features, config)
    ELSE IF config.method = "assemblyai" THEN assemblyAIIdentification(roster, index)
    ELSE Placeholder(roster, index, <<5, 10>>)

\* speakerDiarizationService.configure(config)
ConfigureDiarization ==
    /\ MacrotaskReady
    /\ \E config \in DiarConfigs :
        /\ config # diarConfig
        /\ diarConfig' = config
    /\ UNCHANGED <<captureVars, now, dispatchVars, hookVars, noteVars, histVars,
                   noteExtVars, speakers, nextSpeakerIndex, identCalls, lastIdent,
                   captureExtVars, carriedJobs, pureVars>>

\* one call of identifySpeaker(entry, audioFeatures), as the hook makes for
\* a result without speaker (only processWithOpenAI gives such results),
\* with the features of the last audio chunk or without any
IdentifySpeaker ==
    /\ MacrotaskReady
    /\ provider = "openai"
    /\ identCalls < MaxCalls
    /\ \E features \in FeatureChoices \cup {NoFeatures} :
        LET made == identifySpeaker(speakers, nextSpeakerIndex, features, diarConfig) IN
        /\ speakers' = made.speakers
        /\ nextSpeakerIndex' = made.nextSpeakerIndex
        /\ lastIdent' = [features |-> features, threw |-> made.threw,
                         speakerId |-> made.speakerId, confidence |-> made.confidence]
    /\ identCalls' = identCalls + 1
    /\ UNCHANGED <<captureVars, now, dispatchVars, hookVars, noteVars, histVars,
                   noteExtVars, diarConfig, captureExtVars, carriedJobs, pureVars>>

\* Rev.ai transcripts of two monologues, each with text or without
TwoMonologues == [1..2 -> [speaker : Speakers, words : {0, 10}]]

\* processWithRevAi publishes the results of one job whose transcript has
\* two monologues; handleTranscriptionResult takes each one with its
\* provider speaker and returns before the diarization service is asked
TranscriptArrives ==
    /\ MacrotaskReady
    /\ provider = "revai"
    /\ callbacks > 0
    /\ nextEntry < MaxEntries
    /\ \E timestamp \in ClockReads, transcript \in TwoMonologues :
        /\ now' = timestamp
        /\ Publish(RevAiResults(transcript, timestamp))
    /\ UNCHANGED <<captureVars, dispatchVars, aiConfigured, intervalId, lastProcessedIndex,
                   noteIsProcessing, noteCycle, notesEmitted, flushParity, lastOutcome,
                   failedJobs, noteTickParity, lastNoteTick, extVars>>

----------------------------------------------------------------------------
(* AudioCaptureService and the session handlers of MeetingPage *)

\* processorNode.onaudioprocess -> audioCallbacks -> transcriptionService.addAudioChunk
AddAudioChunk ==
    /\ MacrotaskReady
    /\ isRecording
    /\ nextChunk < MaxChunks
    /\ \E v \in SampleVals :
        audioBuffer' = Append(audioBuffer, [id |-> nextChunk + 1, len |-> FrameSize, val |-> v])
    /\ nextChunk' = nextChunk + 1
    /\ UNCHANGED <<isRecording, stopPending, sessionNo, now, provider, isProcessing,
                   processInterval, callbacks, jobs, nextJob, hookVars, noteVars, histVars,
                   extVars>>

\* the flush timer fires: setInterval(() => this.processBuffer(), CHUNK_DURATION_MS)
FlushTimer ==
    /\ MacrotaskReady
    /\ processInterval
    /\ ProcessBuffer
    /\ UNCHANGED <<captureVars, provider, processInterval, callbacks, hookVars, noteVars,
                   failedJobs, published, noteTickParity, lastNoteTick, extVars>>

\* handleStartRecording once startRecording() has succeeded:
\* startTranscription() with transcriptionService.start() and
\* noteGenerationService.reset() / start()
SessionStart ==
    /\ MacrotaskReady
    /\ ~isRecording
    /\ sessionNo < MaxSessions
    /\ isRecording' = TRUE
    /\ sessionNo' = sessionNo + 1
    /\ entries' = <<>>
    /\ callbacks' = callbacks + 1
    /\ unsubscribeRef' = TRUE
    /\ IF processInterval
       THEN UNCHANGED <<audioBuffer, processInterval>>
       ELSE /\ audioBuffer' = <<>>
            /\ processInterval' = TRUE
    /\ transcriptBuffer' = <<>>
    /\ lastProcessedIndex' = 0
    /\ intervalId' = (intervalId \/ NotesEnabled)
    /\ speakers' = <<>>
    /\ nextSpeakerIndex' = 0
    /\ UNCHANGED <<stopPending, nextChunk, now, provider, isProcessing, jobs, nextJob,
                   pendingAttr, nextEntry, aiConfigured, noteIsProcessing, noteCycle,
                   notesEmitted, histVars, noteExtVars, diarConfig, identCalls, lastIdent,
                   captureExtVars, pureVars>>

StartSession == SessionStart /\ UNCHANGED carriedJobs

\* the same handler, observed: which jobs of the earlier session are still
\* awaiting their provider
StartSessionOverJobs == SessionStart /\ carriedJobs' = {j.id : j \in jobs}

\* handleStopRecording up to "await stopRecording()": stopTranscription()
\* (transcriptionService.stop(), then unsubscribe), then mediaRecorder.stop()
StopSession ==
    /\ MacrotaskReady
    /\ isRecording /\ ~stopPending
    /\ processInterval' = FALSE
    /\ IF audioBuffer # <<>>
       THEN ProcessBuffer
       ELSE UNCHANGED <<audioBuffer, isProcessing, jobs, nextJob, now, lastOutcome,
                        flushParity>>
    /\ IF unsubscribeRef
       THEN callbacks' = 0 /\ unsubscribeRef' = FALSE
       ELSE UNCHANGED <<callbacks, unsubscribeRef>>
    /\ stopPending' = TRUE
    /\ UNCHANGED <<isRecording, nextChunk, sessionNo, provider, entries, pendingAttr,
                   nextEntry, noteVars, failedJobs, published, noteTickParity,
                   lastNoteTick, extVars>>

\* mediaRecorder.onstop: cleanup() resets the capture state
CaptureStopped ==
    /\ MacrotaskReady
    /\ stopPending
    /\ isRecording' = FALSE
    /\ stopPending' = FALSE
    /\ UNCHANGED <<nextChunk, sessionNo, now, dispatchVars, hookVars, noteVars, histVars,
                   extVars>>

\* Dispatch publishes the single result of a finished cycle to the
\* subscribed handleTranscriptionResult (the environment of the note service)
ResultArrives ==
    /\ MacrotaskReady
    /\ callbacks > 0
    /\ nextEntry < MaxEntries
    /\ \E timestamp \in ClockReads, words \in WordChoices :
        /\ now' = timestamp
        /\ IF provider = "openai"
           THEN Publish(OpenAIResults(words, timestamp))
           ELSE \E speaker \in Speakers :
                Publish(RevAiResults(<<[speaker |-> speaker, words |-> words]>>, timestamp))
    /\ UNCHANGED <<captureVars, dispatchVars, aiConfigured, intervalId, lastProcessedIndex,
                   noteIsProcessing, noteCycle, notesEmitted, flushParity, lastOutcome,
                   failedJobs, noteTickParity, lastNoteTick, extVars>>

----------------------------------------------------------------------------
(* AudioCaptureService: startRecording, pause, resume, stop in detail *)

captureFrame ==
    UNCHANGED <<nextChunk, sessionNo, dispatchVars, hookVars, noteVars, histVars,
                noteExtVars, rosterVars, carriedJobs, pureVars>>

\* cleanup(): the volume timer is cleared, the current nodes are
\* disconnected, the tracks of this.mediaStream are stopped, the references
\* and the state are reset. A stream no longer referenced stays open.
Cleanup ==
    /\ openStreams' = IF mediaStream THEN openStreams - 1 ELSE openStreams
    /\ mediaStream' = FALSE
    /\ isRecording' = FALSE
    /\ isPaused' = FALSE
    /\ duration' = 0

\* if (this.state.isRecording) { console.warn('Already recording'); return false }
AlreadyRecording(recording) == recording

\* startRecording() up to "await navigator.mediaDevices.getUserMedia"
StartRecording ==
    /\ startCalls < MaxStarts
    /\ startCalls' = startCalls + 1
    /\ IF AlreadyRecording(isRecording)
       THEN lastStart' = "false" /\ UNCHANGED startsPending
       ELSE startsPending' = startsPending + 1 /\ UNCHANGED lastStart
    /\ UNCHANGED <<isRecording, stopPending, now, isPaused, mediaStream, openStreams,
                   startTime, pausedDuration, pauseStartTime, duration, pauseRequested,
                   activeTime, chunkParity, volumeParity>>
    /\ captureFrame

\* getUserMedia resolved: the stream, audio context, nodes and recorder
\* are created and assigned, the state is set to recording; returns true
DeviceGranted ==
    /\ startsPending > 0
    /\ startsPending' = startsPending - 1
    /\ openStreams' = openStreams + 1
    /\ mediaStream' = TRUE
    /\ startTime' = now
    /\ pausedDuration' = 0
    /\ isRecording' = TRUE
    /\ isPaused' = FALSE
    /\ duration' = 0
    /\ lastStart' = "true"
    /\ activeTime' = 0
    /\ UNCHANGED <<stopPending, now, startCalls, pauseStartTime, pauseRequested,
                   chunkParity, volumeParity>>
    /\ captureFrame

\* getUserMedia rejected: catch { this.cleanup(); return false }
DeviceDenied ==
    /\ startsPending > 0
    /\ startsPending' = startsPending - 1
    /\ Cleanup
    /\ lastStart' = "false"
    /\ UNCHANGED <<stopPending, now, startCalls, startTime, pausedDuration,
                   pauseStartTime, pauseRequested, activeTime, chunkParity, volumeParity>>
    /\ captureFrame

\* pauseRecording(), past its early return
PauseRecording ==
    /\ isRecording /\ ~isPaused
    /\ pauseStartTime' = now
    /\ isPaused' = TRUE
    /\ pauseRequested' = TRUE
    /\ UNCHANGED <<isRecording, stopPending, now, mediaStream, openStreams, startsPending,
                   startCalls, lastStart, startTime, pausedDuration, duration, activeTime,
                   chunkParity, volumeParity>>
    /\ captureFrame

\* resumeRecording(), called after a pause: returns early unless the
\* service is recording and paused
ResumeRecording ==
    /\ pauseRequested
    /\ pauseRequested' = FALSE
    /\ IF isRecording /\ isPaused
       THEN /\ pausedDuration' = pausedDuration + (now - pauseStartTime)
            /\ isPaused' = FALSE
       ELSE UNCHANGED <<pausedDuration, isPaused>>
    /\ UNCHANGED <<isRecording, stopPending, now, mediaStream, openStreams, startsPending,
                   startCalls, lastStart, startTime, pauseStartTime, duration, activeTime,
                   chunkParity, volumeParity>>
    /\ captureFrame

\* processorNode.onaudioprocess of a live processor node
AudioProcess ==
    /\ openStreams > 0
    /\ ~isPaused
    /\ chunkParity' = 1 - chunkParity
    /\ UNCHANGED <<isRecording, stopPending, now, isPaused, mediaStream, openStreams,
                   startsPending, startCalls, lastStart, startTime, pausedDuration,
                   pauseStartTime, duration, pauseRequested, activeTime, volumeParity>>
    /\ captureFrame

\* the volume timer fires: if (!this.analyserNode || this.state.isPaused) return
VolumeTick ==
    /\ mediaStream
    /\ ~isPaused
    /\ volumeParity' = 1 - volumeParity
    /\ UNCHANGED <<isRecording, stopPending, now, isPaused, mediaStream, openStreams,
                   startsPending, startCalls, lastStart, startTime, pausedDuration,
                   pauseStartTime, duration, pauseRequested, activeTime, chunkParity>>
    /\ captureFrame

\* getState(), from the hook's duration ticker
GetState ==
    /\ isRecording /\ ~isPaused
    /\ duration' = now - startTime - pausedDuration
    /\ UNCHANGED <<isRecording, stopPending, now, isPaused, mediaStream, openStreams,
                   startsPending, startCalls, lastStart, startTime, pausedDuration,
                   pauseStartTime, pauseRequested, activeTime, chunkParity, volumeParity>>
    /\ captureFrame

\* stopRecording(): mediaRecorder.stop(); onstop fires later
StopRecording ==
    /\ isRecording /\ ~stopPending
    /\ stopPending' = TRUE
    /\ pauseRequested' = FALSE
    /\ UNCHANGED <<isRecording, now, isPaused, mediaStream, openStreams, startsPending,
                   startCalls, lastStart, startTime, pausedDuration, pauseStartTime,
                   duration, activeTime, chunkParity, volumeParity>>
    /\ captureFrame

\* mediaRecorder.onstop: this.cleanup(); resolve(blob)
RecorderStopped ==
    /\ stopPending
    /\ stopPending' = FALSE
    /\ Cleanup
    /\ pauseRequested' = FALSE
    /\ UNCHANGED <<now, startsPending, startCalls, lastStart, startTime, pausedDuration,
                   pauseStartTime, activeTime, chunkParity, volumeParity>>
    /\ captureFrame

\* the wall clock advances by one unit
ClockTick ==
    /\ now < MaxClock
    /\ now' = now + 1
    /\ activeTime' = IF isRecording /\ ~pauseRequested THEN activeTime + 1 ELSE activeTime
    /\ UNCHANGED <<isRecording, stopPending, isPaused, mediaStream, openStreams,
                   startsPending, startCalls, lastStart, startTime, pausedDuration,
                   pauseStartTime, duration, pauseRequested, chunkParity, volumeParity>>
    /\ captureFrame

----------------------------------------------------------------------------
(* TranscriptionService.audioToWav *)

\* a sample is a number of tenths: k stands for the Float32 value k / 10
SampleScale == 10

\* sample values, -1.0 to 1.0
SampleTenths == (0 - SampleScale)..SampleScale

\* view.setUint16(offset, value, true)
Uint16LE(value) == <<value % 256, (value \div 256) % 256>>

\* view.setUint32(offset, value, true)
Uint32LE(value) == Uint16LE(value % 65536) \o Uint16LE((value \div 65536) % 65536)

\* the 44 bytes written before the samples; writeString stores the char
\* codes of "RIFF", "WAVE", "fmt " and "data"
WavHeader(length) ==
    <<82, 73, 70, 70>> \o Uint32LE(36 + length * 2) \o <<87, 65, 86, 69>>
        \o <<102, 109, 116, 32>> \o Uint32LE(16) \o Uint16LE(1)
        \o Uint16LE(1) \o Uint32LE(SAMPLE_RATE) \o Uint32LE(SAMPLE_RATE * 2)
        \o Uint16LE(2) \o Uint16LE(16) \o <<100, 97, 116, 97>> \o Uint32LE(length * 2)

\* Math.max(-1, Math.min(1, audio[i]))
Clamp(k) == IF k < 0 - SampleScale THEN 0 - SampleScale
            ELSE IF k > SampleScale THEN SampleScale ELSE k

\* the integer part of a / b, towards zero (setInt16 converts with ToInt16)
Truncate(a, b) == IF a < 0 THEN 0 - ((0 - a) \div b) ELSE a \div b

\* sample < 0 ? sample * 0x8000 : sample * 0x7FFF, as the Int16 stored
Scaled(k) == IF k < 0 THEN Truncate(k * 32768, SampleScale)
             ELSE Truncate(k * 32767, SampleScale)

\* view.setInt16(offset, value, true): two's complement, low byte first
Int16LE(value) == Uint16LE((value + 65536) % 65536)

RECURSIVE PcmBytes(_)
PcmBytes(audio) ==
    IF audio = <<>> THEN <<>>
    ELSE Int16LE(Scaled(Clamp(Head(audio)))) \o PcmBytes(Tail(audio))

audioToWav(audio) == WavHeader(Len(audio)) \o PcmBytes(audio)

\* audioToWav(combinedAudio) for some audio
AudioToWav ==
    /\ \E n \in 0..MaxSamples : \E audio \in [1..n -> SampleTenths] :
        lastWav' = [audio |-> audio, bytes |-> audioToWav(audio)]
    /\ UNCHANGED <<captureVars, now, dispatchVars, hookVars, noteVars, histVars,
                   noteExtVars, rosterVars, captureExtVars, carriedJobs, poll,
                   lastDelivery>>

----------------------------------------------------------------------------
(* TranscriptionService.pollForTranscript, one job *)

\* no pollForTranscript activation yet
NoPoll == [stage |-> "idle", attempt |-> 0, fetches |-> 0, lastStatus |-> "none"]

\* what GET /jobs/{id} can give: a job status, or a response that is not ok
StatusAnswers == {"in_progress", "transcribed", "failed", "error"}

LoopContinuesOnceMore(attempt) == attempt <= MaxAttempts

\* for (let attempt = 0; attempt < maxAttempts; attempt++)
LoopContinues(attempt) == attempt < MaxAttempts

\* attempt++ and the loop test: the next status fetch, or after the loop
\* throw new Error('Rev.ai job timeout')
NextAttempt(p) ==
    IF LoopContinues(p.attempt + 1)
    THEN [p EXCEPT !.stage = "status", !.attempt = p.attempt + 1, !.fetches = p.fetches + 1]
    ELSE [p EXCEPT !.stage = "raised"]

\* catch (error) { if (attempt === maxAttempts - 1) throw error }
PollCaught(p) ==
    IF p.attempt = MaxAttempts - 1 THEN [p EXCEPT !.stage = "raised"] ELSE NextAttempt(p)

\* the continuation of "job = await ... /jobs/${jobId}"
AfterStatus(p, status) ==
    LET seen == [p EXCEPT !.lastStatus = status] IN
    IF status = "transcribed" THEN [seen EXCEPT !.stage = "transcript"]
    ELSE IF status \in {"failed", "error"} THEN PollCaught(seen)
    ELSE NextAttempt(seen)

\* pollForTranscript(jobId) is entered: the first status fetch is sent
PollStart ==
    /\ poll.stage \in {"idle", "returned", "raised"}
    /\ poll' = [stage |-> "status", attempt |-> 0, fetches |-> 1, lastStatus |-> "none"]
    /\ UNCHANGED <<captureVars, now, dispatchVars, hookVars, noteVars, histVars,
                   noteExtVars, rosterVars, captureExtVars, carriedJobs, lastWav,
                   lastDelivery>>

\* a status fetch is answered
StatusAnswer ==
    /\ poll.stage = "status"
    /\ \E status \in StatusAnswers : poll' = AfterStatus(poll, status)
    /\ UNCHANGED <<captureVars, now, dispatchVars, hookVars, noteVars, histVars,
                   noteExtVars, rosterVars, captureExtVars, carriedJobs, lastWav,
                   lastDelivery>>

\* the transcript fetch is answered: return transcript, or
\* throw new Error('Failed to get transcript') into the loop's catch
TranscriptAnswer ==
    /\ poll.stage = "transcript"
    /\ \E ok \in BOOLEAN :
        poll' = IF ok THEN [poll EXCEPT !.stage = "returned"] ELSE PollCaught(poll)
    /\ UNCHANGED <<captureVars, now, dispatchVars, hookVars, noteVars, histVars,
                   noteExtVars, rosterVars, captureExtVars, carriedJobs, lastWav,
                   lastDelivery>>

----------------------------------------------------------------------------
(* TranscriptionService.processWithRevAi and its subscribers *)

\* this.callbacks.forEach(cb => cb(result)): the calls made for one result,
\* to the subscribers in the order of the callbacks array
NotifyAll(result, k) == [i \in 1..k |-> [to |-> i, result |-> result]]

\* the calls of the loop over the results of one transcript
RECURSIVE Notify(_, _)
Notify(results, k) ==
    IF results = <<>> THEN <<>>
    ELSE NotifyAll(Head(results), k) \o Notify(Tail(results), k)

\* onTranscription(callback): push
OnTranscription ==
    /\ callbacks < MaxSubscribers
    /\ callbacks' = callbacks + 1
    /\ UNCHANGED <<captureVars, now, provider, audioBuffer, isProcessing, processInterval,
                   jobs, nextJob, hookVars, noteVars, histVars, extVars>>

\* the function onTranscription returned: filter the callback out
Unsubscribe ==
    /\ callbacks > 0
    /\ callbacks' = callbacks - 1
    /\ UNCHANGED <<captureVars, now, provider, audioBuffer, isProcessing, processInterval,
                   jobs, nextJob, hookVars, noteVars, histVars, extVars>>

\* processWithRevAi(audioBlob, timestamp) after sendToRevAi returned a
\* transcript with monologues
ProcessWithRevAi ==
    /\ \E n \in 0..MaxMonologues, timestamp \in 0..MaxTime :
        \E transcript \in [1..n -> Monologues] :
            lastDelivery' = [transcript |-> transcript, timestamp |-> timestamp,
                             subscribers |-> callbacks,
                             calls |-> Notify(RevAiResults(transcript, timestamp), callbacks)]
    /\ UNCHANGED <<captureVars, now, dispatchVars, hookVars, noteVars, histVars,
                   noteExtVars, rosterVars, captureExtVars, carriedJobs, lastWav, poll>>

----------------------------------------------------------------------------
Init ==
    /\ isRecording = FALSE /\ stopPending = FALSE /\ nextChunk = 0 /\ sessionNo = 0
    /\ now = 0
    /\ provider \in Providers
    /\ audioBuffer = <<>> /\ isProcessing = FALSE /\ processInterval = FALSE
    /\ callbacks = 0 /\ jobs = {} /\ nextJob = 0
    /\ unsubscribeRef = FALSE /\ entries = <<>> /\ pendingAttr = <<>> /\ nextEntry = 0
    /\ aiConfigured \in BOOLEAN
    /\ intervalId = FALSE /\ transcriptBuffer = <<>> /\ lastProcessedIndex = 0
    /\ noteIsProcessing = FALSE /\ noteCycle = IdleCycle /\ notesEmitted = 0
    /\ flushParity = 0 /\ lastOutcome = "none" /\ failedJobs = {} /\ published = 0
    /\ noteTickParity = 0 /\ lastNoteTick = "none"
    /\ manualCycle = IdleCycle /\ cycleErrors = 0
    /\ lastParse = NoParse
    /\ diarConfig = NoConfig /\ speakers = <<>> /\ nextSpeakerIndex = 0
    /\ identCalls = 0 /\ lastIdent = NoIdent
    /\ isPaused = FALSE /\ mediaStream = FALSE /\ openStreams = 0
    /\ startsPending = 0 /\ startCalls = 0 /\ lastStart = "none"
    /\ startTime = 0 /\ pausedDuration = 0 /\ pauseStartTime = 0 /\ duration = 0
    /\ pauseRequested = FALSE /\ activeTime = 0 /\ chunkParity = 0 /\ volumeParity = 0
    /\ carriedJobs = {}
    /\ lastWav = [audio |-> <<>>, bytes |-> <<>>]
    /\ poll = NoPoll
    /\ lastDelivery = [transcript |-> <<>>, timestamp |-> 0, subscribers |-> 0, calls |-> <<>>]

\* Capture, Dispatch and the transcript store; the note service only
\* collects the entries (its timer is left out of this specification).
NextDispatch ==
    \/ StartSession
    \/ AddAudioChunk
    \/ FlushTimer
    \/ StopSession
    \/ CaptureStopped
    \/ SubmitOk
    \/ SubmitFail
    \/ StatusInProgress
    \/ StatusTranscribed
    \/ StatusFailed
    \/ TranscriptOk
    \/ TranscriptError
    \/ WhisperOk
    \/ WhisperFail
    \/ AttributionResume

SpecDispatch == Init /\ [][NextDispatch]_vars

\* The same pipeline over two sessions, with the jobs that outlive a
\* session observed
NextSessions ==
    \/ StartSessionOverJobs
    \/ AddAudioChunk
    \/ FlushTimer
    \/ StopSession
    \/ CaptureStopped
    \/ SubmitOk
    \/ SubmitFail
    \/ StatusInProgress
    \/ StatusTranscribed
    \/ StatusFailed
    \/ TranscriptOk
    \/ TranscriptError
    \/ WhisperOk
    \/ WhisperFail
    \/ AttributionResume

SpecSessions == Init /\ [][NextSessions]_vars

\* The note service and the session handlers; Dispatch is its environment
\* and hands over one result at a time (ResultArrives).
NextNotes ==
    \/ StartSession
    \/ StopSession
    \/ CaptureStopped
    \/ ResultArrives
    \/ AttributionResume
    \/ NoteTick
    \/ AiResponse

SpecNotes == Init /\ [][NextNotes]_vars

\* One session of the note service with the manual "generate now" next to
\* the periodic cycle.
NextGenerate ==
    \/ StartSession
    \/ ResultArrives
    \/ AttributionResume
    \/ NoteTick
    \/ AiResponse
    \/ GenerateNotesNow
    \/ ManualRunReturns

SpecGenerate == Init /\ [][NextGenerate]_vars

\* One session of the note service, with the failed note types of each
\* periodic cycle counted.
NextCycle ==
    \/ StartSession
    \/ ResultArrives
    \/ AttributionResume
    \/ NoteTick
    \/ NoteTypeResponse

SpecCycle == Init /\ [][NextCycle]_vars

\* generateNotesFromContext as a function of the batch, the note type, the
\* provider's reply and the clock.
NextParse ==
    GenerateNoteType

SpecParse == Init /\ [][NextParse]_vars

\* The diarization service with the hook's Rev.ai deliveries
NextRoster ==
    \/ StartSession
    \/ ConfigureDiarization
    \/ IdentifySpeaker
    \/ TranscriptArrives

SpecRoster == Init /\ [][NextRoster]_vars

\* The capture service and its callers
NextCapture ==
    \/ StartRecording
    \/ DeviceGranted
    \/ DeviceDenied
    \/ PauseRecording
    \/ ResumeRecording
    \/ AudioProcess
    \/ VolumeTick
    \/ GetState
    \/ StopRecording
    \/ RecorderStopped
    \/ ClockTick

SpecCapture == Init /\ [][NextCapture]_vars

\* audioToWav on its own
NextWav ==
    AudioToWav

SpecWav == Init /\ [][NextWav]_vars

\* pollForTranscript on its own
NextPoll ==
    \/ PollStart
    \/ StatusAnswer
    \/ TranscriptAnswer

SpecPoll == Init /\ [][NextPoll]_vars

\* the publication of Rev.ai transcripts to the subscribers
NextPublish ==
    \/ OnTranscription
    \/ Unsubscribe
    \/ ProcessWithRevAi

SpecPublish == Init /\ [][NextPublish]_vars

----------------------------------------------------------------------------
(* Observations used by the properties. They restate the conditions from   *)
(* the data, not through the operators that model the code's checks.       *)

\* the buffered audio's average absolute sample value is above 0.01
BufferHasSpeech ==
    /\ audioBuffer # <<>>
    /\ SumAbs(audioBuffer) > ThresholdHundredths * AudioLength(audioBuffer)

\* the buffered audio lasts at least 0.5 s
BufferLongEnough == 2 * AudioLength(audioBuffer) >= SAMPLE_RATE

\* this step is stopTranscription() (handleStopRecording's synchronous part)
StopStep == ~stopPending /\ stopPending'

\* this step called processBuffer (from the timer or from stop())
FlushStep == flushParity' # flushParity

\* this step submitted the whole buffer as one new job
SubmitsBuffer ==
    /\ nextJob' = nextJob + 1
    /\ \E j \in jobs' \ jobs : j.id = nextJob + 1 /\ j.ids = ChunkIds(audioBuffer)
    /\ audioBuffer' = <<>>

\* stopTranscription() has run and no session was started since
SessionStopped == sessionNo > 0 /\ ~unsubscribeRef

\* word count of the entries after the cursor
TailWords == WordCount(SubSeq(transcriptBuffer, lastProcessedIndex + 1, Len(transcriptBuffer)))

TailIds == {transcriptBuffer[i].id : i \in (lastProcessedIndex + 1)..Len(transcriptBuffer)}

\* this step was a periodic processTranscript call
NoteTickStep == noteTickParity' # noteTickParity

\* this step is a generateNotesNow call that starts a run
ManualStartStep == ~manualCycle.active /\ manualCycle'.active

\* this step is the return of a manual run
ManualEndStep == manualCycle.active /\ ~manualCycle'.active

\* this step handled the settled request of a note type of the periodic cycle
TypeSettledStep == noteCycle.active /\ noteCycle' # noteCycle

\* ... and that note type failed
TypeErrorStep ==
    /\ TypeSettledStep
    /\ cycleErrors' = (IF noteCycle.typeIdx = 1 THEN 0 ELSE cycleErrors) + 1

----------------------------------------------------------------------------
(* Properties *)

\* C1: in every reachable state at most one buffer window is in flight
\* (submitted or being polled), whatever the interleaving of timer ticks,
\* chunks, stop() and provider responses.
C1_OneWindowInFlight == Cardinality(jobs) <= 1

\* A job is in flight while a full window of speech is buffered and the
\* flush timer is armed: the next tick meets the processing guard.
C1_Witness ==
    /\ Cardinality(jobs) = 1
    /\ processInterval
    /\ BufferHasSpeech /\ BufferLongEnough

\* C2: whenever stop() is called with non-silent buffered audio of at least
\* the minimum duration, that audio is submitted as exactly one final job,
\* whether or not an earlier window's job is still in flight.
C2_StopSubmitsBufferedSpeech ==
    [][(StopStep /\ BufferHasSpeech /\ BufferLongEnough) => SubmitsBuffer]_vars

\* C3: every result Dispatch builds from a completed job is handed to the
\* session's subscriber and becomes a transcript entry (appended, or waiting
\* for its speaker in the microtask queue).
C3_EveryResultDelivered == published = nextEntry

\* C4: the cursor advances only past entries that were part of the batch the
\* finishing cycle sent to the AI provider.
C4_CursorAdvancesOverBatchOnly ==
    [][\A i \in 1..Len(transcriptBuffer') :
          (lastProcessedIndex < i /\ i <= lastProcessedIndex')
              => transcriptBuffer'[i].id \in noteCycle.batch]_vars

\* C5: the entries of the transcript store are non-decreasing in timestamp.
C5_EntriesOrdered ==
    \A i \in 1..(Len(entries) - 1) : entries[i].timestamp <= entries[i + 1].timestamp

\* Two flush cycles of one session, taken at different times, both appended.
C5_Witness ==
    /\ Len(entries) >= 2
    /\ entries[1].timestamp < entries[Len(entries)].timestamp

\* C6: a buffer whose average absolute sample value is not above the
\* threshold never produces a job; a flush of it that passes the processing
\* guard discards it and leaves the service buffering, with no provider call.
C6_SilenceNeverSubmitted ==
    [][~BufferHasSpeech =>
          /\ nextJob' = nextJob
          /\ {j.id : j \in jobs'} \subseteq {j.id : j \in jobs}
          /\ (FlushStep /\ ~isProcessing /\ audioBuffer # <<>>)
                => (audioBuffer' = <<>> /\ ~isProcessing')]_vars

\* A window of at least the minimum duration was flushed and discarded by
\* the silence gate; no job was ever submitted.
C6_Witness ==
    /\ lastOutcome = "silence"
    /\ nextChunk >= 2 /\ audioBuffer = <<>>
    /\ nextJob = 0 /\ ~isProcessing

\* C7: audio leaves the buffer only into a submitted job, unless the flushed
\* buffer was discarded by the silence gate.
C7_OnlySilenceGateDrops ==
    [][(ChunkIds(audioBuffer) \ ChunkIds(audioBuffer')) # {}
          => (SubmitsBuffer \/ ~BufferHasSpeech)]_vars

C9_StopStopsNoteTimer ==
    SessionStopped => (~intervalId /\ TailIds \subseteq noteCycle.batch)

\* C10: a periodic cycle that finds fewer words after the cursor than the
\* configured minimum issues no AI request and leaves cursor and buffer as
\* they are; the cycle that starts next takes every entry after the cursor.
C10_SparseCycleSkipped ==
    [][/\ (NoteTickStep /\ TailWords < MinTranscriptLength)
             => UNCHANGED <<lastProcessedIndex, noteCycle, noteIsProcessing, transcriptBuffer>>
       /\ (NoteTickStep /\ noteCycle'.active /\ ~noteCycle.active)
             => noteCycle'.batch = TailIds]_vars

\* The last periodic call found entries after the cursor, too few words in
\* them, and returned: they are still after the cursor and no cycle runs.
C10_Witness ==
    /\ lastNoteTick = "sparse"
    /\ TailIds # {} /\ TailWords < MinTranscriptLength
    /\ ~noteCycle.active /\ ~noteIsProcessing

\* C11: a manual run takes every entry collected so far, from index 0,
\* whatever the cursor; neither its start nor its return moves the cursor or
\* touches the periodic cycle, also while a periodic cycle is in flight.
C11_ManualIgnoresCursor ==
    [][/\ ManualStartStep =>
             /\ manualCycle'.batch = {transcriptBuffer[i].id : i \in 1..Len(transcriptBuffer)}
             /\ manualCycle'.timestamp = transcriptBuffer[Len(transcriptBuffer)].timestamp
       /\ (ManualStartStep \/ ManualEndStep) =>
             UNCHANGED <<lastProcessedIndex, noteCycle, noteIsProcessing, transcriptBuffer>>]_vars

\* A manual run started after the cursor had moved, over the whole buffer,
\* while a periodic cycle over the tail is in flight.
C11_Witness ==
    /\ manualCycle.active /\ noteCycle.active
    /\ lastProcessedIndex >= 1
    /\ transcriptBuffer[1].id \in manualCycle.batch
    /\ transcriptBuffer[1].id \notin noteCycle.batch

\* C12: parseNoteResponse never raises, whatever the response and the note
\* type; for "[]", a code-fenced "[]", text that is not JSON and JSON that
\* is not an array it returns no pending note.
C12_ParseNeverRaises ==
    lastParse.noteType # "none" =>
        /\ ~lastParse.raised
        /\ lastParse.response \in {EmptyArrayResponse, FencedEmptyResponse,
                                   NotJsonResponse, NonArrayResponse}
              => lastParse.pending = <<>>

\* Text that is not JSON was handled as the reply to an action-item request
\* (JSON.parse threw inside the try block) and yielded no pending note.
C12_Witness ==
    /\ lastParse.noteType = "action-item"
    /\ lastParse.response = NotJsonResponse
    /\ lastParse.pending = <<>>

\* C13: a failed note type leaves the cycle going: if it was not the last
\* type the next one is requested with the notes so far kept; when the cycle
\* ends, failed types or not, the notes of the other types are emitted and
\* the processing guard is released.
C13_NoteErrorScopedToType ==
    [][/\ (TypeErrorStep /\ noteCycle.typeIdx < NumNoteTypes) =>
             /\ noteCycle' = [noteCycle EXCEPT !.typeIdx = noteCycle.typeIdx + 1]
             /\ noteIsProcessing'
       /\ (TypeErrorStep /\ noteCycle.typeIdx = NumNoteTypes) =>
             notesEmitted' = notesEmitted + noteCycle.notes
       /\ (TypeSettledStep /\ noteCycle.typeIdx = NumNoteTypes) =>
             /\ ~noteIsProcessing' /\ ~noteCycle'.active
             /\ notesEmitted' >= notesEmitted + noteCycle.notes]_vars

\* A cycle has ended in which one note type failed and the three others
\* each gave a note: three notes were emitted and the guard is released.
C13_Witness ==
    /\ lastNoteTick = "started" /\ ~noteCycle.active /\ ~noteIsProcessing
    /\ cycleErrors = 1
    /\ notesEmitted = NumNoteTypes - 1

\* C14: every note materialized from a reply carries the timestamp of the
\* last entry of the batch.
C14_NoteStampedWithLastEntry ==
    \A i \in 1..Len(lastParse.notes) : lastParse.notes[i].timestamp = lastParse.fallback

\* C15: the assignee parsed into a pending action item is the assignee of
\* the note materialized from it.
C15_AssigneeCarried ==
    \A i \in 1..Len(lastParse.notes) :
        lastParse.pending[i].assignee # ""
            => lastParse.notes[i].assignee = lastParse.pending[i].assignee

\* a job's two results have just reached the one subscribed hook
TwoResultsStep == published' = published + 2 /\ callbacks = 1

\* the roster holds a profile of that speaker with the given utterance count
HasProfile(roster, speakerId, count) ==
    \E i \in 1..Len(roster) : roster[i].id = speakerId /\ roster[i].utteranceCount = count

\* C16: when the provider transcript of one job has two speaker segments,
\* speakers 1 and 2, both with text, exactly two entries are appended and
\* the roster then holds profiles for speaker 1 and speaker 2, each with an
\* utterance count of 1.
C16_TwoSegmentsFillRoster ==
    [][TwoResultsStep =>
        /\ Len(entries') = Len(entries) + 2
        /\ {entries'[Len(entries') - 1].speakerId, entries'[Len(entries')].speakerId} = {1, 2}
            => HasProfile(speakers', 1, 1) /\ HasProfile(speakers', 2, 1)]_vars

\* a call of identifySpeaker has just resolved
IdentifyStep == identCalls' = identCalls + 1

\* no profile of the roster scores above 0.6 against the features
NoProfileMatches(roster, features) ==
    \A i \in 1..Len(roster) :
        ~Greater(Score(Distance(roster[i], features)), MatchThreshold)

\* the last profile of the roster is a fresh one built from the features
SeededFrom(roster, features, speakerId) ==
    /\ roster # <<>>
    /\ roster[Len(roster)] = [id |-> speakerId, pitchSum |-> features.pitch,
                              energySum |-> features.energy, utteranceCount |-> 1]

\* C17: when identifySpeaker (simple method) is given acoustic features for
\* which no profile scores above 0.6 and the roster holds fewer profiles
\* than the configured maximum, it creates a new profile seeded from those
\* features and returns it: the roster grows by one.
C17_UnmatchedCreatesProfile ==
    [][(/\ IdentifyStep
        /\ diarConfig.method = "simple"
        /\ lastIdent'.features.given
        /\ NoProfileMatches(speakers, lastIdent'.features)
        /\ Len(speakers) < MaxSpeakersOf(diarConfig))
       => /\ Len(speakers') = Len(speakers) + 1
          /\ SeededFrom(speakers', lastIdent'.features, lastIdent'.speakerId)]_vars

\* C18: the roster never holds more profiles than the configured maximum
\* speaker count (4 when none is configured), and once the maximum is
\* reached identifySpeaker creates no profile and returns an existing one.
C18_RosterCap ==
    [][/\ Len(speakers') <= MaxSpeakersOf(diarConfig')
       /\ (IdentifyStep /\ Len(speakers) >= MaxSpeakersOf(diarConfig))
           => /\ speakers' # <<>> /\ Len(speakers') = Len(speakers)
              /\ \E i \in 1..Len(speakers) : speakers[i].id = lastIdent'.speakerId]_vars

\* a roster at its maximum of one has answered a call whose features
\* match no profile
C18_Witness ==
    /\ diarConfig = [method |-> "simple", maxSpeakers |-> 1]
    /\ Len(speakers) = 1
    /\ identCalls >= 2
    /\ lastIdent.features.given
    /\ lastIdent.confidence = <<5, 10>>
    /\ speakers[1].utteranceCount >= 2

\* ids of the profiles whose running averages equal the features
SameAsAverages(roster, features) ==
    {roster[i].id : i \in {j \in 1..Len(roster) :
        /\ roster[j].pitchSum = features.pitch * roster[j].utteranceCount
        /\ roster[j].energySum = features.energy * roster[j].utteranceCount}}

\* C19: when identifySpeaker (simple method) is called with pitch and
\* energy equal to the current running averages of an existing profile, it
\* returns that profile's id with score 1 and the roster size is unchanged.
C19_SameFeaturesSameSpeaker ==
    [][(/\ IdentifyStep
        /\ diarConfig.method = "simple"
        /\ lastIdent'.features.given
        /\ SameAsAverages(speakers, lastIdent'.features) # {})
       => /\ lastIdent'.speakerId \in SameAsAverages(speakers, lastIdent'.features)
          /\ lastIdent'.confidence[1] = lastIdent'.confidence[2]
          /\ Len(speakers') = Len(speakers)]_vars

\* a profile has been matched a second time by features equal to its
\* averages
C19_Witness ==
    /\ diarConfig.method = "simple"
    /\ identCalls = 3
    /\ lastIdent.features.given
    /\ lastIdent.confidence[1] = lastIdent.confidence[2]
    /\ speakers = <<[id |-> 1, pitchSum |-> 3 * lastIdent.features.pitch,
                     energySum |-> 3 * lastIdent.features.energy, utteranceCount |-> 3]>>

\* C20: under every configuration (none, simple, assemblyai, pyannote),
\* for every roster and with or without acoustic features, identifySpeaker
\* resolves to a concrete speaker with a confidence between 0 and 1 and
\* never throws or rejects.
C20_AttributionNeverFails ==
    [][IdentifyStep =>
        /\ ~lastIdent'.threw
        /\ lastIdent'.speakerId >= 1
        /\ lastIdent'.confidence[2] > 0
        /\ 0 <= lastIdent'.confidence[1]
        /\ lastIdent'.confidence[1] <= lastIdent'.confidence[2]]_vars

\* the assemblyai placeholder has answered a call without features on an
\* empty roster
C20_Witness ==
    /\ diarConfig.method = "assemblyai"
    /\ identCalls >= 1
    /\ speakers = <<>>
    /\ ~lastIdent.features.given
    /\ lastIdent.speakerId = 1
    /\ lastIdent.confidence = <<8, 10>>

\* a call of startRecording has just been made
StartCallStep == startCalls' = startCalls + 1

\* C21: a startRecording() issued while a recording is active, or while an
\* earlier startRecording() has not yet completed, returns false without
\* opening a second device stream and without changing the recording
\* state; at most one media stream is open at any time.
C21_SecondStartFails ==
    [][/\ openStreams' <= 1
       /\ (StartCallStep /\ (isRecording \/ startsPending > 0))
           => /\ lastStart' = "false"
              /\ UNCHANGED <<startsPending, openStreams, isRecording, isPaused, duration>>]_vars

\* C22: between pauseRecording() and the following resumeRecording() the
\* capture stays recording with its device stream, no AudioChunk and no
\* volume reaches a listener and the elapsed duration does not advance;
\* the duration reported afterwards leaves out the whole paused interval.
C22_PauseFreezesCapture ==
    [][/\ (pauseRequested /\ pauseRequested')
           => /\ isRecording' /\ mediaStream'
              /\ chunkParity' = chunkParity
              /\ volumeParity' = volumeParity
              /\ duration' = duration
       /\ (duration' # duration /\ isRecording') => duration' = activeTime']_vars

\* C23: once handleStopRecording has begun and transcriptionService.stop()
\* has run, no further AudioChunk is appended to the buffer of the
\* transcription service (until a new session is started).
C23_StopEndsChunkIntake ==
    [][(stopPending \/ ~isRecording)
        => ChunkIds(audioBuffer') \subseteq ChunkIds(audioBuffer)]_vars

\* a session has just been started
SessionStartStep == sessionNo' = sessionNo + 1

\* a job that was in flight when the session was started has just ended
CarriedJobEnds ==
    \E j \in jobs : j.id \in carriedJobs /\ \A k \in jobs' : k.id # j.id

\* C24: all state is reset between sessions: a new session starts with an
\* empty transcript, roster, note buffer and cursor, and no result of a job
\* submitted during the previous session is appended to its transcript.
C24_SessionsStartClean ==
    [][/\ SessionStartStep
           => /\ entries' = <<>> /\ speakers' = <<>>
              /\ transcriptBuffer' = <<>> /\ lastProcessedIndex' = 0
       /\ (CarriedJobEnds /\ ~SessionStartStep)
           => /\ entries' = entries /\ pendingAttr' = pendingAttr
              /\ transcriptBuffer' = transcriptBuffer]_vars

\* the Int16 stored for the i-th sample, read back from the payload
DecodedInt16(bytes, i) ==
    LET u == bytes[44 + 2 * i - 1] + 256 * bytes[44 + 2 * i] IN
    IF u >= 32768 THEN u - 65536 ELSE u

\* C25: for every sample sequence of N values in [-1, 1] audioToWav yields
\* exactly 44 + 2N bytes, and the 16-bit little-endian payload read back as
\* value / 32768 gives each original sample within one quantization step
\* (1 / 32768).
C25_WavRoundTrip ==
    /\ Len(lastWav.bytes) = 44 + 2 * Len(lastWav.audio) \/ lastWav.bytes = <<>>
    /\ \A i \in 1..Len(lastWav.audio) :
        Abs(lastWav.audio[i] * 32768 - DecodedInt16(lastWav.bytes, i) * SampleScale)
            <= SampleScale

\* C26: pollForTranscript makes at most maxAttempts (30) status fetches for
\* one job and then ends, returning the transcript or raising an error: the
\* answer to the last fetch allowed is never followed by another fetch.
C26_PollingBounded ==
    [][/\ poll'.fetches <= MaxAttempts
       /\ poll'.attempt < MaxAttempts
       /\ (poll.stage = "status" /\ poll.fetches = MaxAttempts /\ poll' # poll)
           => poll'.stage \in {"transcript", "returned", "raised"}
       /\ (poll.stage = "transcript" /\ poll.fetches = MaxAttempts /\ poll' # poll)
           => poll'.stage \in {"returned", "raised"}]_vars

\* the thirtieth status fetch was answered in_progress and the poll raised
C26_Witness ==
    /\ poll.stage = "raised"
    /\ poll.fetches = MaxAttempts
    /\ poll.lastStatus = "in_progress"

\* a status fetch has just been answered with status failed
FailedStatusStep == poll.stage = "status" /\ poll' # poll /\ poll'.lastStatus = "failed"

\* C27: failed is a terminal job state: once a status fetch for a job
\* returns failed, no further status fetch is made for that job and the
\* error is raised at once.
C27_FailedIsTerminal ==
    [][FailedStatusStep => poll'.stage = "raised" /\ poll'.fetches = poll.fetches]_vars

\* the results a transcript calls for: one for each monologue with text, in
\* the order of the monologues
RECURSIVE ExpectedResults(_, _)
ExpectedResults(transcript, timestamp) ==
    IF transcript = <<>> THEN <<>>
    ELSE (IF Head(transcript).words = 0 THEN <<>>
          ELSE <<[timestamp |-> timestamp, words |-> Head(transcript).words,
                  speakerId |-> Head(transcript).speaker]>>)
         \o ExpectedResults(Tail(transcript), timestamp)

\* what subscriber i was handed by the last publication, in the order of the calls
ReceivedBy(i) ==
    LET mine == SelectSeq(lastDelivery.calls, LAMBDA c : c.to = i) IN
    [j \in 1..Len(mine) |-> mine[j].result]

\* C28: from one Rev.ai transcript exactly one result is published for each
\* monologue whose text is not empty and none for a monologue without text;
\* the results are published in the order of the monologues and every
\* subscriber receives them in that order.
C28_OneResultPerMonologue ==
    /\ \A i \in 1..lastDelivery.subscribers :
        ReceivedBy(i) = ExpectedResults(lastDelivery.transcript, lastDelivery.timestamp)
    /\ \A j \in 1..Len(lastDelivery.calls) : lastDelivery.calls[j].to \in 1..lastDelivery.subscribers

\* two subscribers, a transcript whose first monologue has no text and whose
\* second has: each subscriber was called once
C28_Witness ==
    /\ lastDelivery.subscribers = 2
    /\ Len(lastDelivery.transcript) = 2
    /\ lastDelivery.transcript[1].words = 0
    /\ lastDelivery.transcript[2].words > 0
    /\ Len(lastDelivery.calls) = 2

\* the profile the roster holds under an id
ProfileOf(roster, speakerId) ==
    roster[CHOOSE i \in 1..Len(roster) : roster[i].id = speakerId]

IsInRoster(roster, speakerId) == \E i \in 1..Len(roster) : roster[i].id = speakerId

\* the profile under the id has taken one utterance with the features in:
\* the count is one more and each sum has grown by the new value
TookUtterance(before, after, speakerId, features) ==
    /\ IsInRoster(after, speakerId)
    /\ ProfileOf(after, speakerId).utteranceCount
        = ProfileOf(before, speakerId).utteranceCount + 1
    /\ features.given =>
        /\ ProfileOf(after, speakerId).pitchSum
            = ProfileOf(before, speakerId).pitchSum + features.pitch
        /\ ProfileOf(after, speakerId).energySum
            = ProfileOf(before, speakerId).energySum + features.energy

\* C29: each time identifySpeaker attributes an utterance to an existing
\* profile, the profile's utterance count grows by exactly 1 and each
\* running average becomes (old * n + new) / (n + 1); a profile created by
\* the call has count 1 and averages equal to the features it was seeded
\* from; no other profile changes and none leaves the roster.
C29_ProfileUpdate ==
    [][(IdentifyStep /\ ~lastIdent'.threw) =>
        /\ IsInRoster(speakers, lastIdent'.speakerId)
            => TookUtterance(speakers, speakers', lastIdent'.speakerId, lastIdent'.features)
        /\ Len(speakers') > Len(speakers)
            => /\ Len(speakers') = Len(speakers) + 1
               /\ ~IsInRoster(speakers, lastIdent'.speakerId)
               /\ lastIdent'.features.given
                    => SeededFrom(speakers', lastIdent'.features, lastIdent'.speakerId)
               /\ ProfileOf(speakers', lastIdent'.speakerId).utteranceCount = 1
        /\ \A i \in 1..Len(speakers) :
            speakers[i].id # lastIdent'.speakerId => speakers'[i] = speakers[i]]_vars

\* the ids of the chunks a buffer holds
BufferedIds(buffer) == {buffer[i].id : i \in 1..Len(buffer)}

\* this step handed one more chunk to addAudioChunk
ChunkArrives == nextChunk' = nextChunk + 1

\* this step took the whole buffer out as one flushed buffer
FlushesBuffer == FlushStep /\ audioBuffer' = <<>>

\* a job is in flight: every chunk now in the buffer arrived after that job
\* was submitted, since a submission empties the buffer
JobInFlight == jobs # {}

\* C30: buffering never blocks on network I/O: addAudioChunk appends the
\* chunk whether or not a job is in flight; a chunk that arrives while a job
\* is in flight is not part of that job, stays in the buffer in capture
\* order until the next flush takes it, and no chunk is part of more than
\* one flushed buffer.
C30_BufferingNeverBlocks ==
    [][/\ ChunkArrives
           => /\ Len(audioBuffer') = Len(audioBuffer) + 1
              /\ SubSeq(audioBuffer', 1, Len(audioBuffer)) = audioBuffer
              /\ audioBuffer'[Len(audioBuffer')].id = nextChunk'
              /\ jobs' = jobs
       /\ \A i \in 1..(Len(audioBuffer') - 1) : audioBuffer'[i].id < audioBuffer'[i + 1].id
       /\ \A j \in jobs' :
           /\ BufferedIds(audioBuffer') \cap j.ids = {}
           /\ \A k \in jobs' \ {j} : j.ids \cap k.ids = {}
       /\ (JobInFlight /\ BufferedIds(audioBuffer) \ BufferedIds(audioBuffer') # {})
           => FlushesBuffer]_vars


====
